---- MODULE Spec2Model ----
(***************************************************************************)
(* State-machine model of the DICL forecasting pipeline                    *)
(* (src/src/dicl/dicl.py and its older copy src/src/dicl/main/dicl.py).    *)
(*                                                                         *)
(* Numbers.  Raw feature values and component values are integers.  The   *)
(* trainer's rescaled values are kept in HALF units (r2 = 2 * rescaled),   *)
(* so that up_shift = 1.5 is the integer UpShift2 = 3.  The pipeline's     *)
(* inverse rescale ((r - up_shift) / rescale_factor) * (max - min) + min   *)
(* is kept exactly, in units of 1 / Den with Den = 2 * rescale_factor:     *)
(*     Den * raw = (r2 - UpShift2) * (max - min) + Den * min.              *)
(* Every forecast bundle is therefore a matrix of integers in 1/Den units. *)
(* Component values (the disentangler's output) are kept in units of       *)
(* 1 / ScaleUnit, ScaleUnit being a multiple of every column scale a fit   *)
(* can produce, so that the division by the fitted scale is exact.         *)
(* Matrices are sequences of rows, a row is a sequence of numbers.         *)
(***************************************************************************)
EXTENDS Integers, Sequences, FiniteSets, TLC

\* ------------------------------------------------------------- bounds ----
MaxT == 4
MaxF == 2
MaxH == 3
MaxBurnin == 2

\* --------------------------------------------------- program constants ----
RescaleFactor == 7
UpShift2 == 3
Den == 2 * RescaleFactor

\* The unit of the component values: (MaxT - 1)!, a multiple of every range
\* a column of at most MaxT integer rows of the input windows can have.
RECURSIVE Factorial(_)
Factorial(n) == IF n <= 1 THEN 1 ELSE n * Factorial(n - 1)
ScaleUnit == Factorial(MaxT - 1)

\* ------------------------------------------------------------ helpers ----
Range(s) == {s[i] : i \in DOMAIN s}

RECURSIVE SeqSum(_)
SeqSum(s) == IF s = <<>> THEN 0 ELSE Head(s) + SeqSum(Tail(s))

SetMin(S) == CHOOSE x \in S : \A y \in S : x <= y
SetMax(S) == CHOOSE x \in S : \A y \in S : x >= y

Rows(M) == Len(M)
Cols(M) == IF Len(M) = 0 THEN 0 ELSE Len(M[1])
Column(M, c) == [i \in 1..Len(M) |-> M[i][c]]
\* numpy M[:n] for 0 <= n, and M[:-k] written as Take(M, Len(M) - k)
Take(M, n) == IF n <= 0 THEN <<>> ELSE SubSeq(M, 1, IF n > Len(M) THEN Len(M) ELSE n)
\* numpy M[k:]
Drop(M, k) == IF k >= Len(M) THEN <<>> ELSE SubSeq(M, k + 1, Len(M))
\* np.concatenate(cols, axis=1) of column vectors of equal length
Stack(cols, n) == [i \in 1..n |-> [c \in 1..Len(cols) |-> cols[c][i]]]

\* ------------------------------------------------------ input windows ----
Patterns == {"ramp", "flat", "zig"}

Val(p, t, f) ==
    CASE p = "ramp" -> t + f - 1
      [] p = "flat" -> IF f = 1 THEN 1 ELSE t
      [] p = "zig"  -> IF (t + f) % 2 = 0 THEN 0 ELSE 2

MakeWindow(T, F, p) == [t \in 1..T |-> [f \in 1..F |-> Val(p, t, f)]]

Windows == {MakeWindow(T, F, p) : T \in 1..MaxT, F \in 1..MaxF, p \in Patterns}

\* ------------------------------------------------------------- state ----
VARIABLES
    obj,        \* the pipeline object: class, n_features, n_components, model
    fitted,     \* fitted state of self.disentangler (the sklearn pipeline)
    attrs,      \* attributes the predict calls store on self
    stamp,      \* per attribute: "unset", written by the "last" predict call,
                \* or by an "earlier" one
    tlog,       \* trainer calls made by the most recent predict call
    fault,      \* the trainer call that raises next ("none": healthy)
    clean,      \* no predict call has failed so far
    last        \* the most recent operation, its outcome and returned value
                \* (and the burn-in, when it is compute_metrics; the flags
                \* <<stochastic, if_true_mean_else_mode>> the caller passed,
                \* when it is predict_multi_step)

vars == <<obj, fitted, attrs, stamp, tlog, fault, clean, last>>

AttrNames == {"X", "context_length", "prediction_horizon",
              "mean", "mode", "lb", "ub", "icl_object"}
BundleNames == {"mean", "mode", "lb", "ub"}

NoRet == [kind |-> "none"]
NoObj == [alive |-> FALSE, module |-> "none", cls |-> "none",
          n_features |-> 0, n_components |-> 0, model |-> 0]
Unfitted == [nfeat |-> 0, shift |-> <<>>, scale |-> <<>>, reducer |-> 0]
NoAttrs == [X |-> <<>>, context_length |-> 0, prediction_horizon |-> 0,
            mean |-> <<>>, mode |-> <<>>, lb |-> <<>>, ub |-> <<>>,
            icl_object |-> <<>>]
NewTrainer == [stage |-> "new", time_series |-> <<>>, context_length |-> 0,
               mins |-> <<>>, maxs |-> <<>>]

\* The pretrained model handed to the constructor, by how its summaries look:
\* sigma2 is the dispersion it reports (half units), modeoff the distance of
\* the mode from the mean (half units).
Models == {[sigma2 |-> 0, modeoff |-> 0], [sigma2 |-> 2, modeoff |-> 1]}

\* ------------------------------------------------------ disentangler ----
\* make_pipeline(MinMaxScaler(), StandardScaler(), disentangler): the two
\* scalers are an affine map per column, z = (x - shift) / scale, kept here
\* with the column's fitted minimum as location and its fitted range as
\* scale (1 for a constant column, as the scalers do); the last stage is the
\* identity (vICL) or a reduction to n_components columns (DICL_PCA), kept
\* as the projection on the first n_components scaled columns, the dropped
\* ones being rebuilt at the fitted location.
ColMins(M) == [c \in 1..Cols(M) |-> SetMin(Range(Column(M, c)))]

ColScales(M) ==
    [c \in 1..Cols(M) |->
        LET range == SetMax(Range(Column(M, c))) - SetMin(Range(Column(M, c)))
        IN  IF range = 0 THEN 1 ELSE range]

\* PCA.fit raises when n_components exceeds min(n_samples, n_features).
ReducerFitOk(o, M) ==
    o.cls = "vICL" \/ (o.n_components <= Rows(M) /\ o.n_components <= Cols(M))

\* Pipeline.fit fits the stages in order: when the last stage raises, the
\* scalers are already refitted and the last stage keeps its old state.
FitResult(o, old, M) ==
    [nfeat |-> Cols(M), shift |-> ColMins(M), scale |-> ColScales(M),
     reducer |-> IF o.cls = "vICL" THEN 0
                 ELSE IF ReducerFitOk(o, M) THEN Cols(M) ELSE old.reducer]

\* The error self.transform(M) raises, "ok" when it returns.
TransformError(o, f, M) ==
    IF f.nfeat = 0 THEN "NotFittedError"
    ELSE IF Rows(M) = 0 THEN "ValueError"
    ELSE IF Cols(M) # f.nfeat THEN "ValueError"
    ELSE IF o.cls = "vICL" THEN "ok"
    ELSE IF f.reducer = 0 THEN "NotFittedError"
    ELSE IF f.reducer # Cols(M) THEN "ValueError"
    ELSE "ok"

OutCols(o, M) == IF o.cls = "vICL" THEN Cols(M) ELSE o.n_components

\* self.transform: the components, in 1/ScaleUnit.
transform(o, f, M) ==
    [i \in 1..Rows(M) |->
        [c \in 1..OutCols(o, M) |->
            ((M[i][c] - f.shift[c]) * ScaleUnit) \div f.scale[c]]]

\* The error self.inverse_transform raises on a matrix of ncols columns.
InverseError(o, f, ncols) ==
    IF o.cls = "vICL"
    THEN IF ncols = f.nfeat THEN "ok" ELSE "ValueError"
    ELSE IF f.reducer = 0 THEN "NotFittedError"
    ELSE IF ncols # o.n_components \/ f.reducer # f.nfeat THEN "ValueError"
    ELSE "ok"

\* (mutant) the components are returned without the inverse transform.
inverse_transform_mut(o, f, Z) == Z

\* self.inverse_transform on a matrix of component values in
\* 1/(ScaleUnit * Den): x = z * scale + shift, in 1/Den.
inverse_transform(o, f, Z) ==
    [i \in 1..Rows(Z) |->
        [c \in 1..f.nfeat |->
            ((IF c <= Cols(Z) THEN Z[i][c] ELSE 0) * f.scale[c]) \div ScaleUnit
                + Den * f.shift[c]]]

\* ----------------------------------------------------------- trainer ----
\* MultiVariateICLTrainer (dicl.icl.iclearner) is not part of the sources
\* at hand: it is modelled from its documented contract.  It keeps one
\* series per component, rescales it into the band
\* [up_shift, up_shift + rescale_factor] with the per-component min/max of
\* the context, and reports for every context position the one-step-ahead
\* summary (mean, mode, dispersion) in rescaled units.  More steps are
\* produced autoregressively, feeding the chosen output (mean or mode,
\* plus the sampling noise when stochastic) back in.
ColMaxs(M) == [c \in 1..Cols(M) |-> SetMax(Range(Column(M, c)))]

\* Twice the rescaled value of z in a context of range [mn, mx], quantised.
Rescale2(z, mn, mx) ==
    UpShift2 + (IF mx = mn THEN 0 ELSE (Den * (z - mn)) \div (mx - mn))

update_context(t, Z, context_length, update_min_max) ==
    [stage |-> "context", time_series |-> Z, context_length |-> context_length,
     mins |-> IF update_min_max THEN ColMins(Take(Z, context_length)) ELSE t.mins,
     maxs |-> IF update_min_max THEN ColMaxs(Take(Z, context_length)) ELSE t.maxs]

icl(t, stochastic, if_true_mean_else_mode) == [t EXCEPT !.stage = "ran"]

\* Rolling one-step-ahead mean (half units) of component c at position i.
RollingMean(t, c, i) == Rescale2(t.time_series[i][c], t.mins[c], t.maxs[c])

\* Per autoregressive step, the drift of the value fed back in.
Drift(model, if_true_mean_else_mode, noise) ==
    (IF if_true_mean_else_mode THEN 0 ELSE model.modeoff) + noise

\* Summaries of component c for the n context positions and h more steps.
Summaries(t, model, c, h, drift) ==
    LET n == t.context_length
        mean_arr == [i \in 1..(n + h) |->
                        IF i <= n THEN RollingMean(t, c, i)
                        ELSE RollingMean(t, c, n) + (i - n) * drift]
    IN  [mean_arr |-> mean_arr,
         mode_arr |-> [i \in 1..(n + h) |-> mean_arr[i] + model.modeoff],
         sigma_arr |-> [i \in 1..(n + h) |-> model.sigma2],
         rescaling_min |-> t.mins[c],
         rescaling_max |-> t.maxs[c]]

compute_statistics(t, model) ==
    [c \in 1..Cols(t.time_series) |-> Summaries(t, model, c, 0, 0)]

predict_long_horizon_llm(t, model, prediction_horizon, stochastic, if_true_mean_else_mode, noise) ==
    [c \in 1..Cols(t.time_series) |->
        Summaries(t, model, c, prediction_horizon,
                  Drift(model, if_true_mean_else_mode, noise))]

\* Sampling noise the trainer may draw: none unless stochastic.
Noise(stochastic) == IF stochastic THEN {0, 1} ELSE {0}

\* ------------------------------------------- rescale / reconstruct ----
\* ((r - up_shift) / rescale_factor) * (ts_max - ts_min) + ts_min, in 1/Den
\* of the component unit
Unshift(r2, ts_min, ts_max) == (r2 - UpShift2) * (ts_max - ts_min) + Den * ts_min

\* (mutant) the dispersion is unshifted like the mean.
Unscale_mut(s2, ts_min, ts_max) == s2 * (ts_max - ts_min) + Den * ts_min

\* (sigma / rescale_factor) * (ts_max - ts_min), in 1/Den of the component
\* unit
Unscale(s2, ts_min, ts_max) == s2 * (ts_max - ts_min)

\* (mutant) the bounds are formed after the inverse transform, as
\* inverse(mean) -/+ dispersion.
Reconstruct_mut(o, f, icl_object) ==
    LET n == Len(icl_object[1].mean_arr)
        raw(arr, d) == [i \in 1..n |->
            Unshift(arr[i], icl_object[d].rescaling_min,
                    icl_object[d].rescaling_max)]
        sigma(i, d) ==
            IF d > o.n_components THEN 0
            ELSE Unscale(icl_object[d].sigma_arr[i], icl_object[d].rescaling_min,
                         icl_object[d].rescaling_max) \div ScaleUnit
        mean == inverse_transform(o, f,
                    Stack([d \in 1..o.n_components |->
                              raw(icl_object[d].mean_arr, d)], n))
        mode == inverse_transform(o, f,
                    Stack([d \in 1..o.n_components |->
                              raw(icl_object[d].mode_arr, d)], n))
    IN  [kind |-> "bundle", mean |-> mean, mode |-> mode,
         lb |-> [i \in 1..n |->
                    [c \in 1..f.nfeat |-> mean[i][c] - sigma(i, c)]],
         ub |-> [i \in 1..n |->
                    [c \in 1..f.nfeat |-> mean[i][c] + sigma(i, c)]]]

\* The loop over range(self.n_components) and the four inverse transforms.
Reconstruct(o, f, icl_object) ==
    LET n == Len(icl_object[1].mean_arr)
        mean_arr(d) == [i \in 1..n |->
            Unshift(icl_object[d].mean_arr[i],
                    icl_object[d].rescaling_min, icl_object[d].rescaling_max)]
        mode_arr(d) == [i \in 1..n |->
            Unshift(icl_object[d].mode_arr[i],
                    icl_object[d].rescaling_min, icl_object[d].rescaling_max)]
        sigma_arr(d) == [i \in 1..n |->
            Unscale(icl_object[d].sigma_arr[i],
                    icl_object[d].rescaling_min, icl_object[d].rescaling_max)]
        all_mean == [d \in 1..o.n_components |-> mean_arr(d)]
        all_mode == [d \in 1..o.n_components |-> mode_arr(d)]
        all_lb == [d \in 1..o.n_components |->
                      [i \in 1..n |-> mean_arr(d)[i] - sigma_arr(d)[i]]]
        all_ub == [d \in 1..o.n_components |->
                      [i \in 1..n |-> mean_arr(d)[i] + sigma_arr(d)[i]]]
    IN  [kind |-> "bundle",
         mean |-> inverse_transform(o, f, Stack(all_mean, n)),
         mode |-> inverse_transform(o, f, Stack(all_mode, n)),
         lb |-> inverse_transform(o, f, Stack(all_lb, n)),
         ub |-> inverse_transform(o, f, Stack(all_ub, n))]

\* ------------------------------------------------------- the pipeline ----
\* (mutant) the feature count is not checked.
ShapeOk_mut(o, X) == TRUE

\* assert X.shape[1] == self.n_features
ShapeOk(o, X) == Cols(X) = o.n_features

\* (mutant) the last row is not held out.
SingleContext_mut(X) == X

\* X[:-1]
SingleContext(X) == Take(X, Rows(X) - 1)

\* (mutant) X[:-prediction_horizon]: one row too many.
MultiContext_mut(X, prediction_horizon) == Take(X, Rows(X) - prediction_horizon)

\* X[: -1 - prediction_horizon]
MultiContext(X, prediction_horizon) == Take(X, Rows(X) - 1 - prediction_horizon)

\* Every attribute written before this call now dates from an earlier call.
Age(st) == [n \in AttrNames |-> IF st[n] = "unset" THEN "unset" ELSE "earlier"]
Written(st, names) == [n \in AttrNames |-> IF n \in names THEN "last" ELSE st[n]]

\* (mutant) the min/max recomputation is not requested.
UpdateCall_mut(Z) ==
    [fn |-> "update_context", rows |-> Rows(Z), cols |-> Cols(Z),
     context_length |-> Rows(Z), update_min_max |-> FALSE]

UpdateCall(Z) ==
    [fn |-> "update_context", rows |-> Rows(Z), cols |-> Cols(Z),
     context_length |-> Rows(Z), update_min_max |-> TRUE]
\* (mutant) the statistics are read out where the run should be made.
IclCall_mut(stochastic, if_true_mean_else_mode) ==
    [fn |-> "compute_statistics", stochastic |-> stochastic,
     if_true_mean_else_mode |-> if_true_mean_else_mode]

IclCall(stochastic, if_true_mean_else_mode) ==
    [fn |-> "icl", stochastic |-> stochastic,
     if_true_mean_else_mode |-> if_true_mean_else_mode]
StatsCall == [fn |-> "compute_statistics"]
\* (mutant) the two flags change places on the way to the long-horizon pass.
LongCall_mut(prediction_horizon, stochastic, if_true_mean_else_mode) ==
    [fn |-> "predict_long_horizon_llm", prediction_horizon |-> prediction_horizon,
     stochastic |-> if_true_mean_else_mode, if_true_mean_else_mode |-> stochastic]

LongCall(prediction_horizon, stochastic, if_true_mean_else_mode) ==
    [fn |-> "predict_long_horizon_llm", prediction_horizon |-> prediction_horizon,
     stochastic |-> stochastic, if_true_mean_else_mode |-> if_true_mean_else_mode]

\* (mutant) the error is swallowed: the call returns nothing, normally.
Raised_mut(err, a, st, log) ==
    [result |-> "ok", ret |-> NoRet, attrs |-> a, stamp |-> st, tlog |-> log]

Raised(err, a, st, log) ==
    [result |-> err, ret |-> NoRet, attrs |-> a, stamp |-> st, tlog |-> log]

\* The attributes a successful predict call stores last: the older class
\* (dicl.main) keeps icl_object in a local variable.
StoredAtEnd(o) ==
    IF o.module = "main" THEN BundleNames ELSE BundleNames \cup {"icl_object"}

Finish(o, f, a, st, log, icl_object) ==
    LET b == Reconstruct(o, f, icl_object)
    IN  [result |-> "ok", ret |-> b,
         attrs |-> [a EXCEPT !.icl_object =
                                IF o.module = "main" THEN @ ELSE icl_object,
                             !.mean = b.mean, !.mode = b.mode,
                             !.lb = b.lb, !.ub = b.ub],
         stamp |-> Written(st, StoredAtEnd(o)),
         tlog |-> log]

\* DICL.predict_single_step: the outcome of the call on the object o with
\* fitted disentangler f, stored attributes a (stamps st) and a trainer
\* whose next failing call is flt.  update_context overwrites the whole
\* working context of the trainer, so its state is local to the call.
predict_single_step(o, f, a, st, flt, X) ==
    IF ~ShapeOk(o, X) THEN Raised("AssertionError", a, st, <<>>)
    ELSE
    LET a1 == [a EXCEPT !.context_length = Rows(X), !.X = X]
        st1 == Written(Age(st), {"context_length", "X"})
        terr == TransformError(o, f, SingleContext(X))
        X_transformed == transform(o, f, SingleContext(X))
        t1 == update_context(NewTrainer, X_transformed, Rows(X_transformed), TRUE)
        t2 == icl(t1, TRUE, FALSE)
        log1 == <<UpdateCall(X_transformed)>>
        log2 == Append(log1, IclCall(TRUE, FALSE))
        log3 == Append(log2, StatsCall)
    IN  IF terr # "ok" THEN Raised(terr, a1, st1, <<>>)
        ELSE IF flt = "update_context" THEN Raised("TrainerError", a1, st1, log1)
        ELSE IF flt = "icl" THEN Raised("TrainerError", a1, st1, log2)
        ELSE IF flt = "statistics" THEN Raised("TrainerError", a1, st1, log3)
        ELSE Finish(o, f, a1, st1, log3,
                    compute_statistics(t2, o.model))

\* DICL.predict_multi_step
predict_multi_step(o, f, a, st, flt, X, prediction_horizon, stochastic, if_true_mean_else_mode, noise) ==
    IF ~ShapeOk(o, X) THEN Raised("AssertionError", a, st, <<>>)
    ELSE
    LET a1 == [a EXCEPT !.context_length = Rows(X), !.X = X,
                        !.prediction_horizon = prediction_horizon]
        st1 == Written(Age(st), {"context_length", "X", "prediction_horizon"})
        ctx == MultiContext(X, prediction_horizon)
        terr == TransformError(o, f, ctx)
        X_transformed == transform(o, f, ctx)
        t1 == update_context(NewTrainer, X_transformed, Rows(X_transformed), TRUE)
        t2 == icl(t1, stochastic, if_true_mean_else_mode)
        log1 == <<UpdateCall(X_transformed)>>
        log2 == Append(log1, IclCall(stochastic, if_true_mean_else_mode))
        log3 == Append(log2, LongCall(prediction_horizon, stochastic,
                                      if_true_mean_else_mode))
    IN  IF terr # "ok" THEN Raised(terr, a1, st1, <<>>)
        ELSE IF flt = "update_context" THEN Raised("TrainerError", a1, st1, log1)
        ELSE IF flt = "icl" THEN Raised("TrainerError", a1, st1, log2)
        ELSE IF flt = "statistics" THEN Raised("TrainerError", a1, st1, log3)
        ELSE Finish(o, f, a1, st1, log3,
                    predict_long_horizon_llm(t2, o.model, prediction_horizon,
                                             stochastic, if_true_mean_else_mode,
                                             noise))

\* ------------------------------------------------------------ metrics ----
\* numpy broadcasting of an r1-row and an r2-row operand (likewise columns).
BroadcastOk(n1, n2) == n1 = n2 \/ n1 = 1 \/ n2 = 1
BroadcastLen(n1, n2) == IF n1 = 1 THEN n2 ELSE n1
At(M, i, j) == M[IF Rows(M) = 1 THEN 1 ELSE i][IF Cols(M) = 1 THEN 1 ELSE j]

\* self.X[1:] - self.mean, in 1/Den; X holds raw integers.
Residual(X, mean) ==
    LET gt == Drop(X, 1)
    IN  [i \in 1..BroadcastLen(Rows(gt), Rows(mean)) |->
            [j \in 1..BroadcastLen(Cols(X), Cols(mean)) |->
                Den * At(gt, i, j) - At(mean, i, j)]]

ResidualOk(X, mean) ==
    /\ BroadcastOk(Rows(X) - 1, Rows(mean))
    /\ BroadcastOk(Cols(X), Cols(mean))

\* (...) ** 2, elementwise, in 1/Den^2
Squared(R) == [i \in 1..Len(R) |-> [j \in 1..Len(R[i]) |-> R[i][j] * R[i][j]]]

\* np.linalg.norm(..., axis=1): the Euclidean norm of each row, kept as the
\* number under the root.
RowNorms(R) == [i \in 1..Len(R) |-> [sqrt_of |-> SeqSum(Squared(R)[i])]]

\* A numpy array as it is returned: its shape and its entries.
Vector(v) == [shape |-> <<Len(v)>>, data |-> v]
Matrix(M, ncols) == [shape |-> <<Len(M), ncols>>, data |-> M]

\* (mutant) the attributes exist from construction on.
HasAttr_mut(st, name) == TRUE

\* An attribute of self exists once a predict call has assigned it.
HasAttr(st, name) == st[name] # "unset"

\* v[burnin:].mean(axis=0) of a vector, kept as the terms and their number
\* (no term: numpy's nan).
MeanOf(v, burnin) == [sum_of |-> Drop(v, burnin), count |-> Len(Drop(v, burnin))]

\* M[burnin:].mean(axis=0) of a matrix: one mean per column.
ColMeans(M, burnin, ncols) ==
    [j \in 1..ncols |->
        [sum |-> SeqSum(Column(Drop(M, burnin), j)),
         count |-> Len(Drop(M, burnin))]]

\* metrics["perdim_squared_error"] = ...
PerdimEntry(perdim_squared_errors, agg_squared_error) == agg_squared_error

\* compute_ks_metric (dicl.utils.calibration) is not part of the sources at
\* hand: it returns one statistic per feature, here the number of ground
\* truth rows it was given after the burn-in.
compute_ks_metric(o, groundtruth, burnin) ==
    [j \in 1..o.n_features |-> Len(Drop(groundtruth, burnin))]

compute_metrics(o, f, a, st, burnin) ==
    IF ~HasAttr(st, "X") \/ ~HasAttr(st, "mean")
    THEN [result |-> "AttributeError", ret |-> NoRet]
    ELSE IF ~ResidualOk(a.X, a.mean)
    THEN [result |-> "ValueError", ret |-> NoRet]
    ELSE IF ~HasAttr(st, "icl_object")
    THEN [result |-> "AttributeError", ret |-> NoRet]
    ELSE IF InverseError(o, f, o.n_components) # "ok"
    THEN [result |-> InverseError(o, f, o.n_components), ret |-> NoRet]
    ELSE
    LET R == Residual(a.X, a.mean)
        perdim_squared_errors == Squared(R)
        agg_squared_error == RowNorms(R)
        kss == compute_ks_metric(o, Drop(a.X, 1), burnin)
    IN  [result |-> "ok",
         ret |-> [kind |-> "metrics",
                  average_agg_squared_error |-> MeanOf(agg_squared_error, burnin),
                  agg_squared_error |-> Vector(agg_squared_error),
                  average_perdim_squared_error |->
                      ColMeans(perdim_squared_errors, burnin, Cols(R)),
                  perdim_squared_error |->
                      PerdimEntry(Matrix(perdim_squared_errors, Cols(R)),
                                  Vector(agg_squared_error)),
                  perdim_ks |-> Vector(kss),
                  agg_ks |-> [sum |-> SeqSum(kss), count |-> Len(kss)]]]

\* ------------------------------------------------------- constructors ----
\* A request names the class and passes n_features and, when nc > 0,
\* n_components (nc = 0: the argument is not passed).
\* dicl.vICL takes no n_components; dicl.main.vICL asserts it equals
\* n_features; DICL_PCA requires it.
\* (mutant) no check of n_components against n_features.
vICL_mut(module, nf, nc, model) ==
    [result |-> "ok",
     obj |-> [alive |-> TRUE, module |-> module, cls |-> "vICL",
              n_features |-> nf, n_components |-> IF nc = 0 THEN nf ELSE nc,
              model |-> model]]

vICL(module, nf, nc, model) ==
    IF module = "dicl"
    THEN IF nc # 0 THEN [result |-> "TypeError", obj |-> NoObj]
         ELSE [result |-> "ok",
               obj |-> [alive |-> TRUE, module |-> module, cls |-> "vICL",
                        n_features |-> nf, n_components |-> nf, model |-> model]]
    ELSE IF nc = 0 THEN [result |-> "TypeError", obj |-> NoObj]
    ELSE IF nf # nc THEN [result |-> "AssertionError", obj |-> NoObj]
    ELSE [result |-> "ok",
          obj |-> [alive |-> TRUE, module |-> module, cls |-> "vICL",
                   n_features |-> nf, n_components |-> nc, model |-> model]]

DICL_PCA(module, nf, nc, model) ==
    IF nc = 0 THEN [result |-> "TypeError", obj |-> NoObj]
    ELSE [result |-> "ok",
          obj |-> [alive |-> TRUE, module |-> module, cls |-> "DICL_PCA",
                   n_features |-> nf, n_components |-> nc, model |-> model]]

\* ------------------------------------------------------------ actions ----
PredictOps == {"predict_single_step", "predict_multi_step"}
Faults == {"none", "update_context", "icl", "statistics"}
Classes == {"vICL", "DICL_PCA"}
Modules == {"dicl", "main"}

Init ==
    /\ obj = NoObj
    /\ fitted = Unfitted
    /\ attrs = NoAttrs
    /\ stamp = [n \in AttrNames |-> "unset"]
    /\ tlog = <<>>
    /\ fault = "none"
    /\ clean = TRUE
    /\ last = [op |-> "none", result |-> "ok", ret |-> NoRet, burnin |-> 0,
               flags |-> <<>>]

NewObject(cls, module, nf, nc, model) ==
    IF cls = "vICL" THEN vICL(module, nf, nc, model)
    ELSE DICL_PCA(module, nf, nc, model)

Construct(cls, module, nf, nc, model) ==
    /\ ~obj.alive
    /\ obj' = NewObject(cls, module, nf, nc, model).obj
    /\ last' = [op |-> cls, result |-> NewObject(cls, module, nf, nc, model).result,
                ret |-> NoRet, burnin |-> 0, flags |-> <<>>]
    /\ UNCHANGED <<fitted, attrs, stamp, tlog, fault, clean>>

FitDisentangler(X) ==
    /\ obj.alive
    /\ fitted' = FitResult(obj, fitted, X)
    /\ last' = [op |-> "fit_disentangler",
                result |-> IF ReducerFitOk(obj, X) THEN "ok" ELSE "ValueError",
                ret |-> NoRet, burnin |-> 0, flags |-> <<>>]
    /\ UNCHANGED <<obj, attrs, stamp, tlog, fault, clean>>

\* (mutant) a predict call fits the disentangler on the window it stored.
Apply_mut(op, flags, r) ==
    /\ attrs' = r.attrs
    /\ stamp' = r.stamp
    /\ tlog' = r.tlog
    /\ clean' = (clean /\ r.result = "ok")
    /\ last' = [op |-> op, result |-> r.result, ret |-> r.ret, burnin |-> 0,
                flags |-> flags]
    /\ fitted' = FitResult(obj, fitted, r.attrs.X)
    /\ UNCHANGED <<obj, fault>>

Apply(op, flags, r) ==
    /\ attrs' = r.attrs
    /\ stamp' = r.stamp
    /\ tlog' = r.tlog
    /\ clean' = (clean /\ r.result = "ok")
    /\ last' = [op |-> op, result |-> r.result, ret |-> r.ret, burnin |-> 0,
                flags |-> flags]
    /\ UNCHANGED <<obj, fitted, fault>>

PredictSingleStep(X) ==
    /\ obj.alive
    /\ Apply("predict_single_step", <<>>,
             predict_single_step(obj, fitted, attrs, stamp, fault, X))

PredictMultiStep(X, prediction_horizon, stochastic, if_true_mean_else_mode, noise) ==
    /\ obj.alive
    /\ obj.module = "dicl"
    /\ Apply("predict_multi_step", <<stochastic, if_true_mean_else_mode>>,
             predict_multi_step(obj, fitted, attrs, stamp, fault, X,
                                prediction_horizon, stochastic,
                                if_true_mean_else_mode, noise))

ComputeMetrics(burnin) ==
    /\ obj.alive
    /\ obj.module = "dicl"
    /\ last' = [op |-> "compute_metrics",
                result |-> compute_metrics(obj, fitted, attrs, stamp, burnin).result,
                ret |-> compute_metrics(obj, fitted, attrs, stamp, burnin).ret,
                burnin |-> burnin, flags |-> <<>>]
    /\ UNCHANGED <<obj, fitted, attrs, stamp, tlog, fault, clean>>

\* The environment: the trainer's next failing call (a model or device
\* error) comes and goes.
TrainerFault(k) ==
    /\ obj.alive
    /\ fault # k
    /\ fault' = k
    /\ UNCHANGED <<obj, fitted, attrs, stamp, tlog, clean, last>>

\* ------------------------------------------- the life of one pipeline ----
\* Any sequence of operations on one pipeline object, on the longest ramp
\* windows and one pretrained model.
LifeWindows == {MakeWindow(MaxT, F, "ramp") : F \in 1..MaxF}
LifeModel == [sigma2 |-> 2, modeoff |-> 1]

Next ==
    \/ \E cls \in Classes, module \in Modules, nf \in 1..MaxF, nc \in 0..MaxF :
          Construct(cls, module, nf, nc, LifeModel)
    \/ \E X \in LifeWindows : FitDisentangler(X)
    \/ \E X \in LifeWindows : PredictSingleStep(X)
    \/ \E X \in LifeWindows, h \in 0..1, s \in BOOLEAN :
          PredictMultiStep(X, h, s, s, 0)
    \/ \E b \in 0..MaxBurnin : ComputeMetrics(b)
    \/ \E k \in Faults : TrainerFault(k)

Spec == Init /\ [][Next]_vars

\* ------------------------------------------------ one prediction call ----
\* One predict call, then compute_metrics, on any constructed pipeline whose
\* disentangler is unfitted or was fitted once, with any window, horizon
\* and generation mode.
Objects ==
    {NewObject(cls, module, nf, nc, model).obj :
        cls \in Classes, module \in Modules, nf \in 1..MaxF, nc \in 0..MaxF,
        model \in Models} \ {NoObj}

CallInit ==
    /\ obj \in Objects
    /\ fitted \in {Unfitted} \cup {FitResult(obj, Unfitted, X) : X \in Windows}
    /\ attrs = NoAttrs
    /\ stamp = [n \in AttrNames |-> "unset"]
    /\ tlog = <<>>
    /\ fault \in Faults
    /\ clean = TRUE
    /\ last = [op |-> "none", result |-> "ok", ret |-> NoRet, burnin |-> 0,
               flags |-> <<>>]

CallNext ==
    \/ /\ last.op = "none"
       /\ \E X \in Windows : PredictSingleStep(X)
    \/ /\ last.op = "none"
       /\ \E X \in Windows, h \in 0..MaxH, s \in BOOLEAN, m \in BOOLEAN :
             \E noise \in Noise(s) : PredictMultiStep(X, h, s, m, noise)
    \/ /\ last.op \in PredictOps
       /\ \E b \in 0..MaxBurnin : ComputeMetrics(b)

CallSpec == CallInit /\ [][CallNext]_vars

\* ======================================================== properties ====
IsShape(M, r, c) == Len(M) = r /\ \A i \in 1..Len(M) : Len(M[i]) = c
BundleShape(b, r, c) ==
    b.kind = "bundle" /\ \A n \in BundleNames : IsShape(b[n], r, c)

\* The bundle of the one-step-ahead rolling summaries over the context ctx.
RollingBundle(o, f, ctx) ==
    Reconstruct(o, f,
        compute_statistics(
            icl(update_context(NewTrainer, transform(o, f, ctx), Rows(ctx), TRUE),
                TRUE, FALSE),
            o.model))

\* A predict call of the pipeline's life on the window X.
APredictStep(X) ==
    \/ PredictSingleStep(X)
    \/ \E h \in 0..1, s \in BOOLEAN : PredictMultiStep(X, h, s, s, 0)

\* C1: a predict_single_step or predict_multi_step call on a window whose
\* column count differs from n_features raises (the assertion) before any
\* trainer call is made, and every stored attribute (X, context_length,
\* prediction_horizon, the four bundles, icl_object) is what it was before.
C1_ShapeMismatchFailsFast ==
    [][\A X \in LifeWindows :
          (Cols(X) # obj.n_features /\ APredictStep(X))
          => /\ last'.result = "AssertionError"
             /\ last'.ret = NoRet
             /\ tlog' = <<>>
             /\ attrs' = attrs
             /\ stamp' = stamp]_vars

\* A mismatched call was made on a pipeline that holds an earlier forecast.
C1_Witness ==
    /\ last.op \in PredictOps
    /\ last.result = "AssertionError"
    /\ stamp.mean # "unset"
    /\ stamp.prediction_horizon # "unset"

\* C2 (as claimed): a predict call never returns a bundle computed from a
\* component whose recorded rescaling range is zero-width (rescaling_max =
\* rescaling_min); it fails instead.
C2_DegenerateRangeRejected ==
    (last.op \in PredictOps /\ last.result = "ok" /\ stamp.icl_object = "last")
    => \A d \in DOMAIN attrs.icl_object :
          attrs.icl_object[d].rescaling_max # attrs.icl_object[d].rescaling_min

\* C3: compute_metrics called while no predict call has completed (no
\* bundle stored) raises (the missing attribute of self) and returns no
\* metrics record, whatever the burn-in.
C3_MetricsBeforePredictFails ==
    (last.op = "compute_metrics" /\ stamp.mean = "unset")
    => (last.result = "AttributeError" /\ last.ret = NoRet)

C3_Witness ==
    /\ last.op = "compute_metrics"
    /\ last.burnin = MaxBurnin
    /\ stamp.X = "unset"
    /\ stamp.mean = "unset"
    /\ last.result = "AttributeError"

\* C4: every vICL object has n_components = n_features, and a vICL
\* construction request that passes n_components different from n_features
\* raises and yields no object.
C4_IdentityVariantSquare ==
    /\ [](obj.alive /\ obj.cls = "vICL" => obj.n_components = obj.n_features)
    /\ [][\A module \in Modules, nf \in 1..MaxF, nc \in 1..MaxF, model \in Models :
             (nc # nf /\ Construct("vICL", module, nf, nc, model))
             => (~obj'.alive /\ last'.result \in {"AssertionError", "TypeError"})]_vars

C4_Witness ==
    /\ last.op = "vICL"
    /\ last.result = "AssertionError"
    /\ ~obj.alive

\* C5: predict_single_step on a T x F window (T >= 2, F = n_features), the
\* disentangler fitted for F features and the trainer healthy, returns four
\* arrays of T-1 rows and F columns, for vICL (C = F) and DICL_PCA (C <= F);
\* the context handed to the trainer has T-1 rows and C columns.
C5_SingleStepShapes ==
    (/\ last.op = "predict_single_step"
     /\ stamp.X = "last"
     /\ Rows(attrs.X) >= 2
     /\ fault = "none"
     /\ TransformError(obj, fitted, SingleContext(attrs.X)) = "ok")
    => /\ last.result = "ok"
       /\ BundleShape(last.ret, Rows(attrs.X) - 1, obj.n_features)
       /\ tlog[1].fn = "update_context"
       /\ tlog[1].rows = Rows(attrs.X) - 1
       /\ tlog[1].cols = obj.n_components
       /\ obj.n_components <= obj.n_features
       /\ (obj.cls = "vICL" => obj.n_components = obj.n_features)

C5_Witness ==
    /\ last.op = "predict_single_step"
    /\ last.result = "ok"
    /\ obj.cls = "DICL_PCA"
    /\ obj.n_components < obj.n_features
    /\ Rows(attrs.X) = MaxT

\* C6: predict_multi_step on a T x F window with 1 <= H < T-1 hands the
\* trainer the T-1-H rows of X before the last H+1, and returns four arrays
\* of T-1 rows and F columns: the first T-1-H rows are the one-step-ahead
\* rolling summaries of that context, the last H rows come from the
\* long-horizon pass requested with horizon H.
C6_MultiStepShapes ==
    LET T == Rows(attrs.X)
        H == attrs.prediction_horizon
    IN  (/\ last.op = "predict_multi_step"
         /\ stamp.X = "last"
         /\ 1 <= H /\ H < T - 1
         /\ fault = "none"
         /\ TransformError(obj, fitted, Take(attrs.X, T - 1 - H)) = "ok")
        => /\ last.result = "ok"
           /\ BundleShape(last.ret, T - 1, obj.n_features)
           /\ tlog[1].fn = "update_context"
           /\ tlog[1].rows = T - 1 - H
           /\ tlog[1].context_length = T - 1 - H
           /\ tlog[3].fn = "predict_long_horizon_llm"
           /\ tlog[3].prediction_horizon = H
           /\ \A d \in DOMAIN attrs.icl_object :
                 Len(attrs.icl_object[d].mean_arr) = (T - 1 - H) + H
           /\ \A n \in BundleNames :
                 Take(last.ret[n], T - 1 - H) =
                     RollingBundle(obj, fitted, Take(attrs.X, T - 1 - H))[n]

C6_Witness ==
    /\ last.op = "predict_multi_step"
    /\ last.result = "ok"
    /\ attrs.prediction_horizon >= 2
    /\ Rows(attrs.X) - 1 - attrs.prediction_horizon >= 1
    /\ \E d \in DOMAIN attrs.icl_object :
          attrs.icl_object[d].mean_arr[Rows(attrs.X) - 1] #
              attrs.icl_object[d].mean_arr[1]

\* C7: with a deterministic trainer, rows 0..T-3 of the four bundles of
\* predict_multi_step(X, 1) equal the four bundles of predict_single_step on
\* X[:T-1], whatever stochastic and if_true_mean_else_mode were passed.
C7_HorizonOneAgreesWithSingleStep ==
    LET T == Rows(attrs.X)
        S == predict_single_step(obj, fitted, NoAttrs,
                                 [n \in AttrNames |-> "unset"], "none",
                                 Take(attrs.X, T - 1))
    IN  (/\ last.op = "predict_multi_step"
         /\ last.result = "ok"
         /\ attrs.prediction_horizon = 1
         /\ T >= 3)
        => /\ S.result = "ok"
           /\ \A n \in BundleNames : Take(last.ret[n], T - 2) = S.ret[n]

C7_Witness ==
    /\ last.op = "predict_multi_step"
    /\ last.result = "ok"
    /\ attrs.prediction_horizon = 1
    /\ Rows(attrs.X) = MaxT
    /\ tlog[2].stochastic = FALSE
    /\ tlog[2].if_true_mean_else_mode = TRUE
    /\ \E d \in DOMAIN attrs.icl_object :
          attrs.icl_object[d].rescaling_max # attrs.icl_object[d].rescaling_min

\* C8 (as claimed): after any sequence of successful predict calls, no
\* stored attribute dates from an earlier predict call than the most recent.
C8_OverwrittenWholesale ==
    (clean /\ last.op \in PredictOps)
    => \A n \in AttrNames : stamp[n] # "earlier"

\* C9 (as claimed): compute_metrics returns under perdim_squared_error one
\* value per step and feature, the elementwise square of X[1:] - mean, with
\* its per-feature mean over the steps from the burn-in on; for F > 1 the
\* entry differs from the per-step aggregate entry.
C9_PerdimSquaredError ==
    (/\ last.op = "compute_metrics"
     /\ clean /\ stamp.mean = "last"
     /\ last.burnin < Rows(attrs.X) - 1)
    => LET R == Residual(attrs.X, attrs.mean)
           m == last.ret
       IN  /\ last.result = "ok"
           /\ m.perdim_squared_error.shape = <<Rows(attrs.X) - 1, obj.n_features>>
           /\ m.perdim_squared_error.data = Squared(R)
           /\ m.average_perdim_squared_error =
                 ColMeans(Squared(R), last.burnin, obj.n_features)
           /\ (obj.n_features > 1
                 => m.perdim_squared_error # m.agg_squared_error)

\* C10 (as claimed): predict_multi_step with prediction_horizon = 0, or with
\* prediction_horizon >= T-1, raises and returns no bundle.
C10_HorizonValidated ==
    (/\ last.op = "predict_multi_step"
     /\ stamp.prediction_horizon = "last"
     /\ (attrs.prediction_horizon = 0
            \/ attrs.prediction_horizon >= Rows(attrs.X) - 1))
    => (last.result # "ok" /\ last.ret = NoRet)

\* What the trainer reported in the most recent predict call: the stored
\* icl_object, or (the older class keeps it local) what its model reports.
ZeroDispersionReported ==
    IF stamp.icl_object = "last"
    THEN \A d \in DOMAIN attrs.icl_object :
            \A i \in DOMAIN attrs.icl_object[d].sigma_arr :
                attrs.icl_object[d].sigma_arr[i] = 0
    ELSE obj.model.sigma2 = 0

ModeIsMeanReported ==
    IF stamp.icl_object = "last"
    THEN \A d \in DOMAIN attrs.icl_object :
            attrs.icl_object[d].mode_arr = attrs.icl_object[d].mean_arr
    ELSE obj.model.modeoff = 0

\* C11: when the trainer reports dispersion 0 for every component and step,
\* the bundles a predict call returns satisfy lb = ub = mean elementwise;
\* when it also reports mode = mean, the mode bundle equals the mean bundle.
C11_ZeroDispersionCollapses ==
    (/\ last.op \in PredictOps
     /\ last.result = "ok"
     /\ ZeroDispersionReported)
    => /\ last.ret.lb = last.ret.mean
       /\ last.ret.ub = last.ret.mean
       /\ (ModeIsMeanReported => last.ret.mode = last.ret.mean)

C11_Witness ==
    /\ last.op = "predict_multi_step"
    /\ last.result = "ok"
    /\ attrs.prediction_horizon >= 1
    /\ ZeroDispersionReported
    /\ ModeIsMeanReported
    /\ \E d \in DOMAIN attrs.icl_object :
          /\ attrs.icl_object[d].rescaling_max # attrs.icl_object[d].rescaling_min
          /\ attrs.icl_object[d].rescaling_min # 0

\* C12: no predict_single_step, predict_multi_step or compute_metrics call
\* changes the fitted state of the disentangler; it changes only in a
\* fit_disentangler call.
C12_NeverRefitted ==
    [][/\ (last'.op \in PredictOps \cup {"compute_metrics"} => fitted' = fitted)
       /\ (fitted' # fitted => \E X \in LifeWindows : FitDisentangler(X))]_vars

\* Metrics were computed from a forecast made after the disentangler was
\* fitted for the object's feature count.
C12_Witness ==
    /\ last.op = "compute_metrics"
    /\ last.result = "ok"
    /\ fitted.nfeat = obj.n_features
    /\ stamp.prediction_horizon = "last"

\* The context the most recent predict call sliced from the stored window.
LastContext ==
    IF last.op = "predict_single_step" THEN SingleContext(attrs.X)
    ELSE MultiContext(attrs.X, attrs.prediction_horizon)

\* The position, in the sequence of trainer calls, of the failing call.
FaultIndex(k) ==
    CASE k = "update_context" -> 1
      [] k = "icl" -> 2
      [] k = "statistics" -> 3

\* C13: when a trainer call raises inside predict_single_step or
\* predict_multi_step, the same error leaves the predict call, no bundle is
\* returned, and the failing call is the last trainer call of that predict
\* call: nothing is called after it and no call is made twice.
C13_TrainerErrorPropagates ==
    (/\ last.op \in PredictOps
     /\ stamp.X = "last"
     /\ TransformError(obj, fitted, LastContext) = "ok"
     /\ fault # "none")
    => /\ last.result = "TrainerError"
       /\ last.ret = NoRet
       /\ Len(tlog) = FaultIndex(fault)
       /\ \A i, j \in DOMAIN tlog : i # j => tlog[i].fn # tlog[j].fn

C13_Witness ==
    /\ last.op = "predict_multi_step"
    /\ last.result = "TrainerError"
    /\ fault = "statistics"
    /\ Len(tlog) = 3
    /\ tlog[3].fn = "predict_long_horizon_llm"

\* C14: within one predict_multi_step call every component is unshifted
\* with one (rescaling_min, rescaling_max) pair for all T-1 rows, the pair
\* of the initial (T-1-H)-row context: update_min_max = true is requested
\* exactly once, on that context, and no trainer call follows the
\* long-horizon pass.
C14_SingleRescalingPair ==
    LET T == Rows(attrs.X)
        H == attrs.prediction_horizon
        Z == transform(obj, fitted, Take(attrs.X, T - 1 - H))
        io == attrs.icl_object
    IN  (/\ last.op = "predict_multi_step"
         /\ last.result = "ok"
         /\ 1 <= H /\ H < T - 1)
        => /\ Cardinality({i \in DOMAIN tlog : tlog[i].fn = "update_context"}) = 1
           /\ tlog[1].fn = "update_context"
           /\ tlog[1].update_min_max
           /\ tlog[1].rows = T - 1 - H
           /\ tlog[Len(tlog)].fn = "predict_long_horizon_llm"
           /\ \A d \in 1..obj.n_components :
                 /\ io[d].rescaling_min = ColMins(Z)[d]
                 /\ io[d].rescaling_max = ColMaxs(Z)[d]
                 /\ \A i \in 1..(T - 1) :
                       last.ret.mean[i][d] =
                           ((((io[d].mean_arr[i] - UpShift2)
                                  * (ColMaxs(Z)[d] - ColMins(Z)[d])
                              + Den * ColMins(Z)[d]) * fitted.scale[d])
                               \div ScaleUnit) + Den * fitted.shift[d]

\* A reduced pipeline forecast one step beyond a context whose first
\* component varies and does not start at the fitted location.
C14_Witness ==
    /\ last.op = "predict_multi_step"
    /\ last.result = "ok"
    /\ obj.cls = "DICL_PCA"
    /\ attrs.prediction_horizon = 1
    /\ Rows(attrs.X) = MaxT
    /\ attrs.icl_object[1].rescaling_max # attrs.icl_object[1].rescaling_min
    /\ attrs.icl_object[1].rescaling_min # 0
    /\ attrs.icl_object[1].mean_arr[MaxT - 1] # attrs.icl_object[1].mean_arr[MaxT - 2]

\* C15 (as claimed): when the trainer raises inside a predict call that
\* follows a successful one, the stored window, the stored context length
\* and the stored bundles all date from one and the same predict call.
C15_ConsistentAfterTrainerError ==
    (/\ last.op \in PredictOps
     /\ last.result = "TrainerError"
     /\ stamp.mean # "unset")
    => /\ stamp.X = stamp.mean
       /\ stamp.context_length = stamp.mean
       /\ \A n \in BundleNames : stamp[n] = stamp.mean

\* The trainer calls a predict call makes, in order.
CallOrder(op) ==
    IF op = "predict_single_step"
    THEN <<"update_context", "icl", "compute_statistics">>
    ELSE <<"update_context", "icl", "predict_long_horizon_llm">>

\* C16: a predict call drives the trainer in a fixed order, each step once:
\* update_context (the disentangled context, context_length its row count,
\* update_min_max = true), then icl, then the read-out (compute_statistics
\* in predict_single_step, predict_long_horizon_llm with the caller's
\* horizon in predict_multi_step); a call that stops early has made a
\* prefix of that sequence, a successful one all of it.
C16_TrainerCallOrder ==
    last.op \in PredictOps
    => /\ Len(tlog) <= 3
       /\ \A i \in DOMAIN tlog : tlog[i].fn = CallOrder(last.op)[i]
       /\ (last.result = "ok" => Len(tlog) = 3)
       /\ (tlog # <<>>
             => /\ tlog[1].rows = Rows(LastContext)
                /\ tlog[1].cols = obj.n_components
                /\ tlog[1].context_length = tlog[1].rows
                /\ tlog[1].update_min_max)
       /\ ((Len(tlog) = 3 /\ last.op = "predict_multi_step")
             => tlog[3].prediction_horizon = attrs.prediction_horizon)

C16_Witness ==
    /\ last.op = "predict_single_step"
    /\ last.result = "ok"
    /\ obj.module = "main"
    /\ Len(tlog) = 3
    /\ tlog[3].fn = "compute_statistics"

\* C17: predict_multi_step hands the caller's stochastic and
\* if_true_mean_else_mode unchanged to the icl run and to the long-horizon
\* pass, so both receive the same pair; predict_single_step always requests
\* stochastic = true.
C17_FlagsForwarded ==
    /\ ((last.op = "predict_single_step" /\ Len(tlog) >= 2)
          => tlog[2].stochastic = TRUE)
    /\ (last.op = "predict_multi_step"
          => \A i \in 2..Len(tlog) :
                /\ tlog[i].stochastic = last.flags[1]
                /\ tlog[i].if_true_mean_else_mode = last.flags[2])

C17_Witness ==
    /\ last.op = "predict_multi_step"
    /\ last.result = "ok"
    /\ attrs.prediction_horizon >= 1
    /\ tlog[2].stochastic /\ ~tlog[2].if_true_mean_else_mode
    /\ tlog[3].stochastic /\ ~tlog[3].if_true_mean_else_mode

\* The summaries the trainer returned to the most recent predict call (the
\* older class keeps them local to predict_single_step).
ReportedSummaries ==
    IF stamp.icl_object = "last" THEN attrs.icl_object
    ELSE compute_statistics(
             icl(update_context(NewTrainer, transform(obj, fitted, LastContext),
                                Rows(LastContext), TRUE), TRUE, FALSE),
             obj.model)

\* C18: for every component with rescaling range (min, max), raw mean and
\* raw mode are (rescaled - up_shift) / rescale_factor * (max - min) + min,
\* the raw dispersion is rescaled / rescale_factor * (max - min), and lb / ub
\* are the inverse transform of the stacked raw mean -/+ raw dispersion:
\* the bounds are formed in component space, before the inverse transform.
C18_BoundsBeforeInverse ==
    (last.op \in PredictOps /\ last.result = "ok")
    => LET io == ReportedSummaries
           n == Len(io[1].mean_arr)
           width(d) == io[d].rescaling_max - io[d].rescaling_min
           RawMean(d, i) ==
               (io[d].mean_arr[i] - UpShift2) * width(d) + Den * io[d].rescaling_min
           RawMode(d, i) ==
               (io[d].mode_arr[i] - UpShift2) * width(d) + Den * io[d].rescaling_min
           RawDisp(d, i) == io[d].sigma_arr[i] * width(d)
       IN  /\ last.ret.mean = inverse_transform(obj, fitted,
                 [i \in 1..n |-> [d \in 1..obj.n_components |-> RawMean(d, i)]])
           /\ last.ret.mode = inverse_transform(obj, fitted,
                 [i \in 1..n |-> [d \in 1..obj.n_components |-> RawMode(d, i)]])
           /\ last.ret.lb = inverse_transform(obj, fitted,
                 [i \in 1..n |-> [d \in 1..obj.n_components |->
                     RawMean(d, i) - RawDisp(d, i)]])
           /\ last.ret.ub = inverse_transform(obj, fitted,
                 [i \in 1..n |-> [d \in 1..obj.n_components |->
                     RawMean(d, i) + RawDisp(d, i)]])

\* A forecast in which forming the bounds after the inverse transform would
\* give another lower bound: the dispersion is not 0, the component's range
\* is not 0 and the fitted scale of its column is not 1.
C18_Witness ==
    /\ last.op \in PredictOps
    /\ last.result = "ok"
    /\ stamp.icl_object = "last"
    /\ fitted.scale[1] # 1
    /\ attrs.icl_object[1].sigma_arr[1] # 0
    /\ attrs.icl_object[1].rescaling_max # attrs.icl_object[1].rescaling_min
    /\ attrs.lb[1][1] #
          attrs.mean[1][1]
            - (attrs.icl_object[1].sigma_arr[1]
                 * (attrs.icl_object[1].rescaling_max
                      - attrs.icl_object[1].rescaling_min)) \div ScaleUnit

====
